---------------------------- MODULE Spec2Model ----------------------------
(***************************************************************************)
(* GtkEventControllerKey (gtk/gtkeventcontrollerkey.c) as a state machine. *)
(*                                                                         *)
(* The controller's fields are im_context, pressed_keys and current_event. *)
(* gtk_event_controller_key_handle_event runs in steps: from its entry to  *)
(* the first g_signal_emit (or to a return), and from the return of the    *)
(* observers of one signal to the next g_signal_emit (or to a return).     *)
(* While the observers of a signal run, the call is a frame on `stack`,    *)
(* and the accessors (forward, get_group, set_im_context, get_im_context)  *)
(* may be called, as they may be between two handle_event calls.           *)
(***************************************************************************)
EXTENDS Integers, Sequences, FiniteSets

\* ------------------------------------------------------------------ bounds

\* Key values are 0..MaxKeyval (a guint keyval; 0 converts to a NULL pointer).
MaxKeyval == 1

Keyvals == 0..MaxKeyval
\* What the events fed in carry besides their key value: <<hardware keycode,
\* modifier-state bitmask, keyboard group>>.
Payloads == {<<38, 0, 0>>, <<39, 1, 1>>}
\* The input-method contexts that can be attached; NULL is no context.
NULL == "NULL"
IMContexts == {"imA", "imB"}
\* What an accessor of GdkEvent leaves when it fetches nothing.
NoValue == -1

\* ------------------------------------------------------------------ events

\* The event types handle_event distinguishes; GDK_BUTTON_PRESS stands for
\* every type that is neither a focus change nor a key press or release.
GDK_FOCUS_CHANGE == "GDK_FOCUS_CHANGE"
GDK_KEY_PRESS == "GDK_KEY_PRESS"
GDK_KEY_RELEASE == "GDK_KEY_RELEASE"
GDK_BUTTON_PRESS == "GDK_BUTTON_PRESS"

MkEvent(t, f, kv, kc, st, im, g) ==
    [type |-> t, focus_in |-> f, keyval |-> kv, keycode |-> kc,
     state |-> st, is_modifier |-> im, group |-> g]

\* current_event = NULL
NULLEvent == MkEvent("NULL", NoValue, NoValue, NoValue, NoValue, NoValue, NoValue)

\* focus_in: 1 gained, 0 lost, NoValue when gdk_event_get_focus_in fetches nothing.
FocusEvents ==
    { MkEvent(GDK_FOCUS_CHANGE, f, NoValue, NoValue, NoValue, NoValue, NoValue) :
        f \in {0, 1, NoValue} }

OtherEvents ==
    { MkEvent(GDK_BUTTON_PRESS, NoValue, NoValue, NoValue, NoValue, NoValue, NoValue) }

\* is_modifier as gdk_event_get_key_is_modifier delivers it (1, 0, or NoValue when
\* it fetches nothing), and whether gdk_event_get_state fetches the state.
KeyEvents ==
    { MkEvent(t, NoValue, kv, p[1], p[2], im, p[3]) :
        t \in {GDK_KEY_PRESS, GDK_KEY_RELEASE}, kv \in Keyvals, p \in Payloads,
        im \in {0, 1, NoValue} }
    \cup
    { MkEvent(t, NoValue, kv, p[1], NoValue, im, p[3]) :
        t \in {GDK_KEY_PRESS, GDK_KEY_RELEASE}, kv \in Keyvals, p \in Payloads,
        im \in {0, 1} }

Events == FocusEvents \cup OtherEvents \cup KeyEvents

\* The GdkEvent accessors: [ok |-> fetched, v |-> value].
gdk_event_get_focus_in(e) == [ok |-> e.focus_in # NoValue, v |-> e.focus_in = 1]
gdk_event_get_state(e) == [ok |-> e.state # NoValue, v |-> e.state]
gdk_event_get_key_is_modifier(e) == [ok |-> e.is_modifier # NoValue, v |-> e.is_modifier = 1]
gdk_event_get_keycode(e) == e.keycode
gdk_event_get_keyval(e) == e.keyval
gdk_event_get_key_group(e) == e.group

\* ------------------------------------------------------------------- state

VARIABLES
    im_context,     \* key->im_context: NULL or the attached GtkIMContext
    pressed_keys,   \* key->pressed_keys: the keys of the GHashTable (a set of keyvals)
    current_event,  \* key->current_event: NULLEvent or the event being handled
    realized,       \* whether the widget handed to forward is realized
    stack,          \* the handle_event calls in progress, innermost last
    last,           \* what the last handle_event call that returned did
    api,            \* what the last accessor call that returned did
    handledPresses, \* history: keyvals whose press returned TRUE, no release handled since
    votedPresses,   \* history: keyvals whose key-pressed was voted TRUE, no key-released since
    lastWasHandledPress \* history: keyvals whose latest key event was a press that returned TRUE

vars == <<im_context, pressed_keys, current_event, realized, stack, last, api,
          handledPresses, votedPresses, lastWasHandledPress>>

\* The signals of the class (enum at lines 56-64).
KEY_PRESSED == "key-pressed"
KEY_RELEASED == "key-released"
MODIFIERS == "modifiers"
IM_UPDATE == "im-update"
FOCUS_IN == "focus-in"
FOCUS_OUT == "focus-out"

\* One g_signal_emit: the signal and the arguments passed to its observers.
Emission(sig, kv, kc, st) == [sig |-> sig, keyval |-> kv, keycode |-> kc, state |-> st]

\* A handle_event call in progress: its event, the signal whose observers are
\* running, what it has emitted so far and what g_signal_emit handed back for
\* the signals that return a value, pressed_keys at entry, whether
\* gtk_im_context_filter_keypress was called, on which context, and whether it
\* answered TRUE.
Frame(e, asked, filtered) ==
    [event |-> e, sig |-> "none", emitted |-> <<>>, votes |-> <<>>, pre |-> pressed_keys,
     im_asked |-> asked, im_ctx |-> IF asked THEN im_context ELSE NULL,
     filtered |-> filtered]

NoCall ==
    [done |-> FALSE, event |-> NULLEvent, emitted |-> <<>>, votes |-> <<>>, ret |-> FALSE,
     pre |-> {}, im_asked |-> FALSE, im_ctx |-> NULL, filtered |-> FALSE,
     wasHandledPress |-> FALSE,
     wasLastHandledPress |-> FALSE, wasVoted |-> FALSE]

\* What an accessor call did: the signal whose observers called it ("none"
\* between handle_event calls), whether the handle_event call emitting it was
\* itself made from an observer of this controller, whether its precondition held, the phases
\* gtk_widget_run_controllers was run for and the event handed to each, the
\* calls made on the input-method contexts in their order, the context reset,
\* the context whose reference was dropped, and what was returned.
NoApi ==
    [op |-> "none", in_handle |-> FALSE, nested |-> FALSE, during |-> "none",
     precondition |-> TRUE,
     realize_called |-> FALSE, phases |-> <<>>, events |-> <<>>, results |-> <<>>,
     event_read |-> FALSE,
     calls |-> <<>>, reset |-> NULL, released |-> NULL, ret |-> FALSE,
     group |-> 0, ctx |-> NULL]

Init ==
    /\ im_context = NULL
    /\ pressed_keys = {}
    /\ current_event = NULLEvent
    /\ realized = FALSE
    /\ stack = <<>>
    /\ last = NoCall
    /\ api = NoApi
    /\ handledPresses = {}
    /\ votedPresses = {}
    /\ lastWasHandledPress = {}

\* ------------------------------------------------- handle_event, piece by piece

IsKeyEvent(e) == e.type \in {GDK_KEY_PRESS, GDK_KEY_RELEASE}

\* FocusSignal with the result of the fetch ignored.
FocusSignal_IgnoresFetch(e) == IF e.focus_in # 0 THEN FOCUS_IN ELSE FOCUS_OUT

\* Lines 97-100: focus-in when the direction is fetched and is "in", else focus-out.
FocusSignal(e) ==
    IF gdk_event_get_focus_in(e).ok /\ gdk_event_get_focus_in(e).v THEN FOCUS_IN ELSE FOCUS_OUT

\* ImFilters with the answer of the context negated.
ImFilters_Negated(ctx, filt) == ctx # NULL /\ ~filt

\* Lines 108-109: the context is asked only when one is attached; filt is its answer.
ImFilters(ctx, filt) == ctx # NULL /\ filt

\* Lines 115-116: both reads must fetch.
Readable_StateOnly(e) == gdk_event_get_state(e).ok

\* Lines 115-117: both fetches must succeed.
Readable(e) == gdk_event_get_state(e).ok /\ gdk_event_get_key_is_modifier(e).ok

\* ModifierHandled with the release of a modifier going on to key-released.
ModifierHandled_PressOnly(type, vote) == IF type = GDK_KEY_PRESS THEN vote ELSE FALSE

\* ModifierHandled with the vote of the modifiers observers dropped.
ModifierHandled_ReleaseOnly(type, vote) == type = GDK_KEY_RELEASE

\* ModifierHandled without the else branch of line 126.
ModifierHandled_VoteOnly(type, vote) == vote

\* Lines 123-126: a modifier press is handled as the modifiers observers vote, a
\* modifier release always.
ModifierHandled(type, vote) == IF type = GDK_KEY_PRESS THEN vote ELSE TRUE

\* KeyEmission with keyval and keycode swapped.
KeyEmission_Swapped(sig, e) ==
    Emission(sig, gdk_event_get_keycode(e), gdk_event_get_keyval(e), gdk_event_get_state(e).v)

\* Lines 140-141 and 147-148: the arguments of key-pressed and key-released.
KeyEmission(sig, e) ==
    Emission(sig, gdk_event_get_keyval(e), gdk_event_get_keycode(e), gdk_event_get_state(e).v)

\* Line 124: the argument of modifiers.
ModifiersEmission(e) == Emission(MODIFIERS, NoValue, NoValue, gdk_event_get_state(e).v)

SignalOnly(sig) == Emission(sig, NoValue, NoValue, NoValue)

\* PressedKeysAfterPress adding the key whatever the key-pressed observers vote.
PressedKeysAfterPress_Always(keys, keyval, handled) == keys \cup {keyval}

\* Lines 142-143: g_hash_table_add when the press was handled.
PressedKeysAfterPress(keys, keyval, handled) ==
    IF handled THEN keys \cup {keyval} ELSE keys

\* ReleaseHandled asking whether any key is pressed instead of this one.
ReleaseHandled_AnyKey(keys, keyval) == keys # {}

\* Line 150: g_hash_table_lookup returns the stored value, which g_hash_table_add
\* made the key itself, GUINT_TO_POINTER (keyval): NULL for a key that is absent
\* and for keyval 0.
ReleaseHandled(keys, keyval) == keyval \in keys /\ keyval # 0

\* PressedKeysAfterRelease without the g_hash_table_remove.
PressedKeysAfterRelease_Kept(keys, keyval) == keys

\* Line 151: g_hash_table_remove.
PressedKeysAfterRelease(keys, keyval) == keys \ {keyval}

\* CurrentEventDuring with the assignment of line 119 made on entry.
CurrentEventDuring_OnEntry(sig, e, cur) == e

\* key->current_event while the observers of the first signal a handle_event
\* call emits are running: line 119 assigns the event after the focus branch
\* (lines 93-103) and the input-method branch (lines 108-113) have returned.
CurrentEventDuring(sig, e, cur) ==
    IF sig \in {FOCUS_IN, FOCUS_OUT, IM_UPDATE} THEN cur ELSE e

\* ClearedCurrentEvent without the assignment.
ClearedCurrentEvent_Kept(cur) == cur

\* Lines 130 and 156: key->current_event = NULL.
ClearedCurrentEvent(cur) == NULLEvent

\* The signals whose return value handle_event reads (lines 124, 140-141).
Votes(sig) == IF sig \in {MODIFIERS, KEY_PRESSED} THEN BOOLEAN ELSE {FALSE}

FORWARD == "forward"

\* The calls the handle_event call being run was made from: none when the
\* toolkit delivers the event, else the observer callbacks and the
\* gtk_event_controller_key_forward call that dispatched it to this controller.
Callers ==
    IF stack = <<>> THEN <<>>
    ELSE IF stack[Len(stack)].sig = FORWARD THEN stack
    ELSE SubSeq(stack, 1, Len(stack) - 1)

\* handle_event returns ret for event e to its caller: to the phase of the
\* forward call that dispatched e, when there is one.
Deliver(callers, e, ret) ==
    IF callers = <<>> THEN <<>>
    ELSE [callers EXCEPT ![Len(callers)] =
            [@ EXCEPT !.results = Append(@, ret), !.events = Append(@, e)]]

\* handle_event stops at a g_signal_emit: the observers of fr.sig run.
Suspend(fr, cur) ==
    /\ stack' = Append(Callers, fr)
    /\ current_event' = cur
    /\ last' = NoCall
    /\ UNCHANGED <<im_context, pressed_keys, realized, api,
                   handledPresses, votedPresses, lastWasHandledPress>>

\* handle_event returns ret, leaving pressed_keys = keys and current_event = cur.
Return(fr, ret, keys, cur, voted) ==
    LET e == fr.event
        k == e.keyval
    IN  /\ stack' = Deliver(Callers, e, ret)
        /\ pressed_keys' = keys
        /\ current_event' = cur
        /\ last' = [done |-> TRUE, event |-> e, emitted |-> fr.emitted,
                    votes |-> fr.votes, ret |-> ret,
                    pre |-> fr.pre, im_asked |-> fr.im_asked, im_ctx |-> fr.im_ctx,
                    filtered |-> fr.filtered,
                    wasHandledPress |-> IsKeyEvent(e) /\ k \in handledPresses,
                    wasLastHandledPress |-> IsKeyEvent(e) /\ k \in lastWasHandledPress,
                    wasVoted |-> IsKeyEvent(e) /\ k \in votedPresses]
        /\ api' = NoApi
        /\ handledPresses' =
             IF e.type = GDK_KEY_PRESS /\ ret THEN handledPresses \cup {k}
             ELSE IF e.type = GDK_KEY_RELEASE THEN handledPresses \ {k}
             ELSE handledPresses
        /\ lastWasHandledPress' =
             IF e.type = GDK_KEY_PRESS /\ ret THEN lastWasHandledPress \cup {k}
             ELSE IF IsKeyEvent(e) THEN lastWasHandledPress \ {k}
             ELSE lastWasHandledPress
        /\ votedPresses' = voted
        /\ UNCHANGED <<im_context, realized>>

\* Lines 135-152, up to the g_signal_emit of key-pressed or key-released.
EmitKeySignal(fr) ==
    LET sig == IF fr.event.type = GDK_KEY_PRESS THEN KEY_PRESSED ELSE KEY_RELEASED
    IN  [fr EXCEPT !.sig = sig, !.emitted = Append(@, KeyEmission(sig, fr.event))]

\* gtk_event_controller_key_handle_event (controller, e), from its entry to its
\* first g_signal_emit or to its return; filt is what the attached context's
\* gtk_im_context_filter_keypress answers when it is asked.
HandleEvent(e, filt) ==
    LET fr == Frame(e, FALSE, FALSE)
        asked == Frame(e, im_context # NULL, im_context # NULL /\ filt)
    IN  IF e.type = GDK_FOCUS_CHANGE
           THEN Suspend([fr EXCEPT !.sig = FocusSignal(e),
                                   !.emitted = <<SignalOnly(FocusSignal(e))>>],
                        CurrentEventDuring(FocusSignal(e), e, current_event))
           ELSE IF ~IsKeyEvent(e)
           THEN Return(fr, FALSE, pressed_keys, current_event, votedPresses)
           ELSE IF ImFilters(im_context, filt)
           THEN Suspend([asked EXCEPT !.sig = IM_UPDATE,
                                      !.emitted = <<SignalOnly(IM_UPDATE)>>],
                        CurrentEventDuring(IM_UPDATE, e, current_event))
           ELSE IF ~Readable(e)
           THEN Return(asked, FALSE, pressed_keys, current_event, votedPresses)
           ELSE IF gdk_event_get_key_is_modifier(e).v
           THEN IF e.type = GDK_KEY_PRESS
                THEN Suspend([asked EXCEPT !.sig = MODIFIERS,
                                           !.emitted = <<ModifiersEmission(e)>>],
                             CurrentEventDuring(MODIFIERS, e, current_event))
                ELSE IF ModifierHandled(e.type, FALSE)
                THEN Return(asked, TRUE, pressed_keys, ClearedCurrentEvent(e), votedPresses)
                ELSE Suspend(EmitKeySignal(asked),
                             CurrentEventDuring(KEY_RELEASED, e, current_event))
           ELSE Suspend(EmitKeySignal(asked),
                        CurrentEventDuring(EmitKeySignal(asked).sig, e, current_event))

\* The toolkit delivers event e to the controller.
gtk_event_controller_key_handle_event(e, filt) ==
    /\ stack = <<>>
    /\ HandleEvent(e, filt)

\* The observers of the signal being emitted have returned (vote is the value
\* g_signal_emit hands back): handle_event runs on to its next g_signal_emit or
\* to its return.
observers_return(vote) ==
    /\ stack # <<>>
    /\ stack[Len(stack)].sig # FORWARD
    /\ LET top == stack[Len(stack)]
           fr == IF top.sig \in {MODIFIERS, KEY_PRESSED}
                 THEN [top EXCEPT !.votes = Append(@, vote)] ELSE top
           e == fr.event
           keyval == gdk_event_get_keyval(e)
       IN  /\ vote \in Votes(fr.sig)
           /\ IF fr.sig \in {FOCUS_IN, FOCUS_OUT}
              THEN Return(fr, FALSE, pressed_keys, current_event, votedPresses)
              ELSE IF fr.sig = IM_UPDATE
              THEN Return(fr, TRUE, pressed_keys, current_event, votedPresses)
              ELSE IF fr.sig = MODIFIERS
              THEN IF ModifierHandled(e.type, vote)
                   THEN Return(fr, TRUE, pressed_keys, ClearedCurrentEvent(current_event),
                               votedPresses)
                   ELSE Suspend(EmitKeySignal(fr), current_event)
              ELSE IF fr.sig = KEY_PRESSED
              THEN Return(fr, vote, PressedKeysAfterPress(pressed_keys, keyval, vote),
                          ClearedCurrentEvent(current_event),
                          IF vote THEN votedPresses \cup {keyval} ELSE votedPresses)
              ELSE Return(fr, ReleaseHandled(pressed_keys, keyval),
                          PressedKeysAfterRelease(pressed_keys, keyval),
                          ClearedCurrentEvent(current_event),
                          votedPresses \ {keyval})

\* ------------------------------------------------------------- the accessors

\* An accessor call that has returned; the record of the last handle_event call
\* gives way to it.
ApiCall(r) ==
    /\ api' = [r EXCEPT !.in_handle = stack # <<>>,
                        !.nested = Len(stack) > 1,
                        !.during = IF stack # <<>> THEN stack[Len(stack)].sig ELSE "none"]
    /\ last' = NoCall

\* HasCurrentEvent without the check.
HasCurrentEvent_Unchecked(cur) == TRUE

\* Line 341 and line 374: g_return_val_if_fail (controller->current_event != NULL, FALSE).
HasCurrentEvent(cur) == cur # NULLEvent

GTK_PHASE_CAPTURE == "capture"
GTK_PHASE_TARGET == "target"
GTK_PHASE_BUBBLE == "bubble"

\* Lines 346-356: the phases gtk_widget_run_controllers is run for, given what
\* each phase would answer: up to the first one that reports TRUE.
PhasesRun(consumed) ==
    IF consumed[1] THEN <<GTK_PHASE_CAPTURE>>
    ELSE IF consumed[2] THEN <<GTK_PHASE_CAPTURE, GTK_PHASE_TARGET>>
    ELSE <<GTK_PHASE_CAPTURE, GTK_PHASE_TARGET, GTK_PHASE_BUBBLE>>

\* gtk_event_controller_key_forward (controller, widget); consumed[i] is what the
\* i-th phase of the widget's controllers answers if it is run. The widget's
\* controllers are other controllers than this one.
gtk_event_controller_key_forward(consumed) ==
    /\ IF ~HasCurrentEvent(current_event)
       THEN /\ ApiCall([NoApi EXCEPT !.op = "forward", !.precondition = FALSE])
            /\ UNCHANGED realized
       ELSE /\ realized' = TRUE
            /\ ApiCall([NoApi EXCEPT !.op = "forward", !.realize_called = ~realized,
                                     !.phases = PhasesRun(consumed),
                                     !.events = [i \in 1..Len(PhasesRun(consumed)) |->
                                                   current_event],
                                     !.results = [i \in 1..Len(PhasesRun(consumed)) |->
                                                    consumed[i]],
                                     !.event_read = TRUE,
                                     !.ret = consumed[1] \/ consumed[2] \/ consumed[3]])
    /\ UNCHANGED <<im_context, pressed_keys, current_event, stack,
                   handledPresses, votedPresses, lastWasHandledPress>>

\* gtk_event_controller_key_get_group (controller): FALSE (0) when no event is
\* current, else the group gdk_event_get_key_group reads from it.
gtk_event_controller_key_get_group ==
    /\ IF ~HasCurrentEvent(current_event)
       THEN ApiCall([NoApi EXCEPT !.op = "get_group", !.precondition = FALSE])
       ELSE ApiCall([NoApi EXCEPT !.op = "get_group", !.event_read = TRUE,
                                  !.group = gdk_event_get_key_group(current_event)])
    /\ UNCHANGED <<im_context, pressed_keys, current_event, realized, stack,
                   handledPresses, votedPresses, lastWasHandledPress>>

\* ContextToReset resetting the context being attached.
ContextToReset_New(old, new) == new

\* Lines 304-305: gtk_im_context_reset on the attached context; NULL when none
\* is attached and nothing is reset.
ContextToReset(old, new) == old

\* Lines 304-307: the calls made on input-method contexts, in their order.
SetImContextCalls(old) ==
    IF old # NULL THEN <<"gtk_im_context_reset", "g_set_object">> ELSE <<"g_set_object">>

\* ContextReleased dropping the reference also when the same context is attached again.
ContextReleased_Always(old, new) == old

\* Line 307 and line 77: g_set_object drops the reference to the old context
\* when the new one is another; g_clear_object drops it (new = NULL). NULL when
\* no reference is dropped.
ContextReleased(old, new) == IF old # new THEN old ELSE NULL

\* gtk_event_controller_key_set_im_context (controller, ctx): gtk_im_context_reset
\* on the attached context if there is one, then g_set_object. The owner attaches
\* and detaches contexts between two handle_event calls: handle_event reads
\* im_context once, at line 108, before any observer runs.
gtk_event_controller_key_set_im_context(ctx) ==
    /\ stack = <<>>
    /\ im_context' = ctx
    /\ ApiCall([NoApi EXCEPT !.op = "set_im_context",
                             !.calls = SetImContextCalls(im_context),
                             !.reset = ContextToReset(im_context, ctx),
                             !.released = ContextReleased(im_context, ctx),
                             !.ctx = ctx])
    /\ UNCHANGED <<pressed_keys, current_event, realized, stack,
                   handledPresses, votedPresses, lastWasHandledPress>>

\* gtk_event_controller_key_get_im_context (controller).
gtk_event_controller_key_get_im_context ==
    /\ stack = <<>>
    /\ ApiCall([NoApi EXCEPT !.op = "get_im_context", !.ctx = im_context])
    /\ UNCHANGED <<im_context, pressed_keys, current_event, realized, stack,
                   handledPresses, votedPresses, lastWasHandledPress>>

\* ------------------------------------------------------------ specification

Next ==
    \/ \E e \in Events, filt \in BOOLEAN : gtk_event_controller_key_handle_event(e, filt)
    \/ \E vote \in BOOLEAN : observers_return(vote)
    \/ \E consumed \in [1..3 -> BOOLEAN] : gtk_event_controller_key_forward(consumed)
    \/ gtk_event_controller_key_get_group
    \/ \E ctx \in IMContexts \cup {NULL} : gtk_event_controller_key_set_im_context(ctx)
    \/ gtk_event_controller_key_get_im_context

Spec == Init /\ [][Next]_vars

\* ---------------------------------------- forwarding to the controller itself

\* The handle_event calls of this controller that may be in progress at once.
MaxDepth == 2

Phases == <<GTK_PHASE_CAPTURE, GTK_PHASE_TARGET, GTK_PHASE_BUBBLE>>

\* The handle_event calls in progress.
HandleDepth == Cardinality({ i \in 1..Len(stack) : stack[i].sig # FORWARD })

\* A gtk_event_controller_key_forward call is running its phases.
InForward == stack # <<>> /\ stack[Len(stack)].sig = FORWARD

\* Lines 346-356: no phase is left to run, after three of them or after one has
\* reported TRUE.
ForwardDone(fr) ==
    Len(fr.results) = Len(Phases) \/ (fr.results # <<>> /\ fr.results[Len(fr.results)])

\* gtk_event_controller_key_forward (controller, widget) called by an observer,
\* for a widget whose controllers include this controller: lines 339-344, the
\* preconditions and the realization. Its phases follow one by one.
forward_enter ==
    /\ stack # <<>> /\ ~InForward
    /\ HandleDepth < MaxDepth
    /\ HasCurrentEvent(current_event)
    /\ stack' = Append(stack, [sig |-> FORWARD, during |-> stack[Len(stack)].sig,
                                realize_called |-> ~realized,
                                results |-> <<>>, events |-> <<>>])
    /\ realized' = TRUE
    /\ last' = NoCall
    /\ UNCHANGED <<im_context, pressed_keys, current_event, api,
                   handledPresses, votedPresses, lastWasHandledPress>>

\* Lines 346, 349, 352: gtk_widget_run_controllers (widget,
\* controller->current_event, phase) for the next phase, in which this
\* controller does not run; consumed is what the others answer.
gtk_widget_run_controllers(consumed) ==
    /\ InForward /\ ~ForwardDone(stack[Len(stack)])
    /\ stack' = Deliver(stack, current_event, consumed)
    /\ UNCHANGED <<im_context, pressed_keys, current_event, realized, last, api,
                   handledPresses, votedPresses, lastWasHandledPress>>

\* Lines 346, 349, 352 for the phase this controller runs in: handle_event is
\* entered with controller->current_event as it is read for this phase, and
\* what it returns is what the phase reports.
gtk_widget_run_controllers_reenter(filt) ==
    /\ InForward /\ ~ForwardDone(stack[Len(stack)])
    /\ HandleEvent(current_event, filt)

\* Lines 347-356: gtk_event_controller_key_forward returns to the observer.
forward_return ==
    /\ InForward /\ ForwardDone(stack[Len(stack)])
    /\ LET fr == stack[Len(stack)]
       IN  /\ stack' = SubSeq(stack, 1, Len(stack) - 1)
           /\ api' = [NoApi EXCEPT !.op = "forward", !.in_handle = TRUE,
                                   !.nested = Len(stack) > 2,
                                   !.during = fr.during,
                                   !.realize_called = fr.realize_called,
                                   !.phases = SubSeq(Phases, 1, Len(fr.results)),
                                   !.events = fr.events,
                                   !.results = fr.results,
                                   !.event_read = TRUE,
                                   !.ret = fr.results[Len(fr.results)]]
    /\ last' = NoCall
    /\ UNCHANGED <<im_context, pressed_keys, current_event, realized,
                   handledPresses, votedPresses, lastWasHandledPress>>

\* The events delivered when observers forward: those of one key, and the
\* others. The key value decides what is added to and looked up in pressed_keys
\* (lines 143, 150, 151) and nothing about current_event.
ForwardedEvents == { e \in Events : IsKeyEvent(e) => gdk_event_get_keyval(e) = MaxKeyval }

\* The controller with observers that forward the current event to a widget
\* this controller is attached to.
NextReentrant ==
    \/ /\ ~InForward
       /\ \/ \E e \in ForwardedEvents, filt \in BOOLEAN :
                gtk_event_controller_key_handle_event(e, filt)
          \/ \E vote \in BOOLEAN : observers_return(vote)
          \/ \E consumed \in [1..3 -> BOOLEAN] : gtk_event_controller_key_forward(consumed)
          \/ gtk_event_controller_key_get_group
          \/ \E ctx \in IMContexts \cup {NULL} : gtk_event_controller_key_set_im_context(ctx)
          \/ gtk_event_controller_key_get_im_context
    \/ forward_enter
    \/ \E consumed \in BOOLEAN : gtk_widget_run_controllers(consumed)
    \/ \E filt \in BOOLEAN : gtk_widget_run_controllers_reenter(filt)
    \/ forward_return

SpecReentrant == Init /\ [][NextReentrant]_vars

\* ------------------------------------------------- the controller's lifetime

\* The controller has not been finalized.
Alive == api.op # "finalize"

\* gtk_event_controller_finalize (object): g_hash_table_destroy on pressed_keys,
\* g_clear_object on im_context; no gtk_im_context_reset is called. The last
\* reference is dropped by the owner, outside any handle_event call.
gtk_event_controller_finalize ==
    /\ stack = <<>>
    /\ Alive
    /\ pressed_keys' = {}
    /\ im_context' = NULL
    /\ ApiCall([NoApi EXCEPT !.op = "finalize",
                             !.calls = <<"g_hash_table_destroy", "g_clear_object">>,
                             !.released = ContextReleased(im_context, NULL)])
    /\ UNCHANGED <<current_event, realized, stack,
                   handledPresses, votedPresses, lastWasHandledPress>>

\* The operations on a controller up to its finalization.
NextLifetime ==
    \/ Alive /\ Next
    \/ gtk_event_controller_finalize

SpecLifetime == Init /\ [][NextLifetime]_vars

\* ------------------------------------------------------------------ claims

\* The number of emissions of sig in a call's emissions.
Count(em, sig) == Cardinality({ i \in 1..Len(em) : em[i].sig = sig })

\* The last operation was a handle_event call, which has returned.
Handled == stack = <<>> /\ last.done

HandledRelease == Handled /\ last.event.type = GDK_KEY_RELEASE

\* The last call handled a key event that the input method did not filter and
\* whose state and classification were read.
ReachedKeyHandling == Handled /\ IsKeyEvent(last.event) /\ ~last.filtered
                        /\ last.event.state # NoValue /\ last.event.is_modifier # NoValue

\* C1: if handle(press k) returned consumed and the next event handled for k is
\* handle(release k), that release returns consumed and k is not in the
\* pressed-key set afterwards; every k, 0 included. Stated for the releases the
\* claim is least in doubt about: those of a key that is not a pure modifier,
\* which the input method does not filter and whose fields are read.
C1_ReleaseAfterConsumedPress ==
    (ReachedKeyHandling /\ last.event.type = GDK_KEY_RELEASE /\ last.event.is_modifier = 0
       /\ last.wasLastHandledPress)
        => (last.ret /\ last.event.keyval \notin pressed_keys)

\* C2 as claimed: between handle calls the pressed-key set is exactly the key
\* values with a press that was reported handled and no release handled since.
C2_PressedIsHandledPresses ==
    stack = <<>> => pressed_keys = handledPresses

\* C2: between handle calls the pressed-key set is exactly the key values whose
\* key-pressed emission was voted consumed and for which no key-released has
\* been emitted since, with or without an input-method context attached.
C2_PressedIsVotedPresses ==
    stack = <<>> => pressed_keys = votedPresses

C2_Witness ==
    /\ stack = <<>>
    /\ im_context # NULL
    /\ pressed_keys = Keyvals
    /\ handledPresses # pressed_keys

\* C3 as claimed: a release of k with no earlier handled press of k still
\* unmatched by a release returns not consumed.
C3_UnmatchedReleaseNotConsumed ==
    (HandledRelease /\ ~last.wasHandledPress) => ~last.ret

\* C3: a release of k that the input method does not filter and that is not
\* classified as a pure modifier, with no key-pressed of k voted consumed since
\* the last key-released of k, returns not consumed.
C3_UnvotedKeyReleaseNotConsumed ==
    (HandledRelease /\ ~last.filtered /\ last.event.is_modifier # 1 /\ ~last.wasVoted)
        => ~last.ret

C3_Witness ==
    /\ HandledRelease /\ ~last.filtered /\ last.event.is_modifier = 0
    /\ last.event.state # NoValue
    /\ ~last.wasVoted /\ last.wasHandledPress
    /\ last.pre # {}
    /\ ~last.ret

\* C4: a key press or release that the attached input-method context filters
\* emits im-update once and nothing else, returns consumed and leaves the
\* pressed-key set as it was.
C4_FilteredEventOnlyImUpdate ==
    (Handled /\ last.filtered)
        => /\ last.emitted = <<Emission(IM_UPDATE, NoValue, NoValue, NoValue)>>
           /\ last.ret
           /\ pressed_keys = last.pre

C4_Witness ==
    /\ Handled /\ last.filtered
    /\ last.event.type = GDK_KEY_RELEASE
    /\ last.event.keyval \in last.pre

\* C5: a focus-change event returns not consumed, emits exactly one
\* notification (focus-in when focus was gained, otherwise focus-out, also when
\* the direction cannot be read), does not consult the input-method context and
\* leaves the pressed-key set as it was.
C5_FocusChange ==
    (Handled /\ last.event.type = GDK_FOCUS_CHANGE)
        => /\ ~last.ret
           /\ last.emitted =
                <<Emission(IF last.event.focus_in = 1 THEN FOCUS_IN ELSE FOCUS_OUT,
                           NoValue, NoValue, NoValue)>>
           /\ ~last.im_asked
           /\ pressed_keys = last.pre

C5_Witness ==
    /\ Handled /\ last.event.type = GDK_FOCUS_CHANGE
    /\ last.event.focus_in = NoValue
    /\ im_context # NULL
    /\ pressed_keys # {}

\* C6: an unfiltered press of a pure modifier whose modifiers observers vote
\* consumed emits modifiers with the event's state and no key-pressed, returns
\* consumed and does not add the key to the pressed-key set.
C6_ModifierPressConsumed ==
    (ReachedKeyHandling /\ last.event.type = GDK_KEY_PRESS /\ last.event.is_modifier = 1
       /\ last.votes # <<>> /\ last.votes[1])
        => /\ last.emitted = <<Emission(MODIFIERS, NoValue, NoValue, last.event.state)>>
           /\ last.ret
           /\ pressed_keys = last.pre

C6_Witness ==
    /\ ReachedKeyHandling /\ last.event.type = GDK_KEY_PRESS /\ last.event.is_modifier = 1
    /\ last.votes = <<TRUE>>
    /\ last.event.state = 1
    /\ last.event.keyval \notin pressed_keys

\* C7 as claimed: an event whose key is classified as a pure modifier emits
\* neither key-pressed nor key-released, whatever the modifiers observers vote.
C7_ModifierNeverKeySignal ==
    (Handled /\ IsKeyEvent(last.event) /\ last.event.is_modifier = 1)
        => Count(last.emitted, KEY_PRESSED) = 0 /\ Count(last.emitted, KEY_RELEASED) = 0

\* C7: an event whose key is classified as a pure modifier never emits
\* key-released, and emits key-pressed exactly when it is an unfiltered press
\* whose modifiers observers voted not consumed (then once, after modifiers).
C7_ModifierKeySignalOnlyAfterUnconsumedVote ==
    (Handled /\ IsKeyEvent(last.event) /\ last.event.is_modifier = 1)
        => /\ Count(last.emitted, KEY_RELEASED) = 0
           /\ Count(last.emitted, KEY_PRESSED) =
                (IF ReachedKeyHandling /\ last.event.type = GDK_KEY_PRESS
                      /\ last.votes # <<>> /\ ~last.votes[1]
                 THEN 1 ELSE 0)
           /\ Count(last.emitted, KEY_PRESSED) = 1 => last.emitted[1].sig = MODIFIERS

C7_Witness ==
    /\ Handled /\ last.event.type = GDK_KEY_PRESS /\ last.event.is_modifier = 1
    /\ Count(last.emitted, KEY_PRESSED) = 1
    /\ last.ret

C9_AccessorsFailOutsideHandle ==
    (stack = <<>> /\ api.op \in {"forward", "get_group"})
        => /\ ~api.in_handle
           /\ ~api.precondition
           /\ ~api.ret
           /\ ~api.realize_called
           /\ api.phases = <<>>
           /\ ~api.event_read
           /\ api.group = 0

C9_Witness ==
    /\ stack = <<>> /\ api.op = "forward"
    /\ pressed_keys # {}
    /\ ~api.precondition

\* C10: the current event is NULL initially and whenever no handle call is on
\* the stack, whatever path the last call returned by; it is non-NULL only while
\* a call is on the stack.
C10_CurrentEventNullOutsideHandle ==
    stack = <<>> => current_event = NULLEvent

C10_Witness ==
    /\ Handled /\ current_event = NULLEvent
    /\ last.event.type = GDK_KEY_PRESS /\ last.event.is_modifier = 1
    /\ Len(last.emitted) = 2
    /\ last.ret

\* A step in which gtk_event_controller_key_set_im_context was called and returned.
AttachStep == api'.op = "set_im_context" /\ api' # api

\* What C11 says of every step, but for the new context not being reset; the
\* context of the state before the step is the old one.
AttachEffect ==
    /\ AttachStep =>
         /\ api'.reset = im_context
         /\ api'.calls = IF im_context # NULL
                         THEN <<"gtk_im_context_reset", "g_set_object">>
                         ELSE <<"g_set_object">>
         /\ im_context' = api'.ctx
    /\ (api'.op = "get_im_context" /\ api' # api) =>
         api'.ctx = im_context /\ im_context' = im_context
    /\ (last'.done /\ last' # last /\ IsKeyEvent(last'.event)) =>
         /\ last'.im_asked = (im_context' # NULL)
         /\ last'.im_ctx = im_context'

\* C11 as claimed: attaching resets the old context once, before the reference
\* is replaced, and never the new one; with none attached nothing is reset; the
\* getter then returns the new context and key events are filtered by it.
C11_AttachNeverResetsNew ==
    [][AttachEffect /\ (AttachStep /\ api'.reset # NULL => api'.reset # api'.ctx)]_vars

\* C11: attaching resets the old context once, before the reference is
\* replaced; the new context is reset only when it is the one already
\* attached; with none attached nothing is reset, and NULL detaches. The getter
\* then returns the new context, and key events are filtered by it and by no other.
C11_AttachResetsOld ==
    [][AttachEffect
         /\ (AttachStep /\ api'.reset # NULL /\ api'.reset = api'.ctx => api'.ctx = im_context)]_vars

C11_Witness ==
    /\ api.op = "set_im_context"
    /\ api.reset = "imA" /\ api.ctx = "imB"
    /\ api.calls = <<"gtk_im_context_reset", "g_set_object">>
    /\ im_context = "imB"

\* A step in which the controller was finalized.
TeardownStep == api'.op = "finalize" /\ api.op # "finalize"

\* A step in which attaching replaced the attached context by another one.
ReplaceStep == AttachStep /\ im_context # NULL /\ api'.ctx # im_context

\* C12 as claimed: the owned context is reset and released when it is replaced
\* and when the controller is torn down; teardown discards the pressed-key set.
C12_ResetAndReleasedOnTeardown ==
    [][/\ ReplaceStep => api'.reset = im_context /\ api'.released = im_context
       /\ TeardownStep =>
            /\ im_context # NULL => api'.reset = im_context /\ api'.released = im_context
            /\ pressed_keys' = {}]_vars

\* C12: the owned context is reset and its reference released when another
\* context replaces it; attaching it again resets it and keeps the reference;
\* teardown releases the reference without resetting the context, and discards
\* the pressed-key set.
C12_ReleasedOnTeardown ==
    [][/\ ReplaceStep => api'.reset = im_context /\ api'.released = im_context
       /\ (AttachStep /\ api'.ctx = im_context) =>
            api'.reset = im_context /\ api'.released = NULL
       /\ TeardownStep =>
            /\ api'.reset = NULL
            /\ api'.released = im_context
            /\ api'.calls = <<"g_hash_table_destroy", "g_clear_object">>
            /\ im_context' = NULL
            /\ pressed_keys' = {}]_vars

\* Torn down with a context attached and a key held.
C12_Witness ==
    /\ api.op = "finalize"
    /\ api.released = "imA"
    /\ votedPresses # {}
    /\ pressed_keys = {}

\* The last call handled the release of a key that is not a pure modifier, which
\* the input method did not filter and whose fields were read.
HandledKeyRelease ==
    ReachedKeyHandling /\ last.event.type = GDK_KEY_RELEASE /\ last.event.is_modifier = 0

\* C14: the release of a non-modifier key, not filtered and readable, returns
\* consumed exactly when its key value was in the pressed-key set just before
\* the call, for every key value, 0 included; the key value is absent
\* afterwards, whatever the key-released observers do.
C14_ReleaseConsumedIffPressed ==
    HandledKeyRelease =>
        /\ last.ret = (last.event.keyval \in last.pre)
        /\ last.event.keyval \notin pressed_keys

HandledUnreadable ==
    /\ Handled /\ IsKeyEvent(last.event) /\ ~last.filtered
    /\ (last.event.state = NoValue \/ last.event.is_modifier = NoValue)

\* C16: a key event, not filtered, whose modifier state or is-modifier
\* classification cannot be read returns not consumed, emits no notification,
\* leaves the pressed-key set as it was and does not set the current event.
C16_UnreadableNotConsumed ==
    HandledUnreadable =>
        /\ ~last.ret
        /\ last.emitted = <<>>
        /\ last.votes = <<>>
        /\ pressed_keys = last.pre
        /\ current_event = NULLEvent

\* The classification alone is unreadable; a context is attached and declined
\* the event; keys are held.
C16_Witness ==
    /\ HandledUnreadable
    /\ last.event.state # NoValue /\ last.event.is_modifier = NoValue
    /\ last.im_asked
    /\ last.pre = Keyvals

\* What a handle_event call that has returned did to the pressed-key set.
HandleFrame ==
    LET e == last.event
        k == e.keyval
        keyPressed == Count(last.emitted, KEY_PRESSED)
        keyReleased == Count(last.emitted, KEY_RELEASED)
    IN  /\ pressed_keys # last.pre =>
             \/ /\ e.type = GDK_KEY_PRESS
                /\ pressed_keys = last.pre \cup {k}
                /\ keyPressed = 1 /\ last.votes[Len(last.votes)]
             \/ /\ e.type = GDK_KEY_RELEASE
                /\ pressed_keys = last.pre \ {k}
        /\ ( \/ ~IsKeyEvent(e)
             \/ last.filtered
             \/ e.state = NoValue \/ e.is_modifier = NoValue
             \/ (e.is_modifier = 1 /\ keyPressed = 0 /\ keyReleased = 0) )
           => pressed_keys = last.pre
        /\ (e.type = GDK_KEY_PRESS /\ keyPressed = 1 /\ ~last.votes[Len(last.votes)])
           => pressed_keys = last.pre

\* A step in which an accessor was called and returned; forward with its
\* precondition failed.
AccessorStep ==
    /\ api' # api
    /\ api'.op \in {"set_im_context", "get_im_context", "forward", "get_group"}
    /\ api'.op = "forward" => ~api'.precondition

\* C17: a handle call changes the pressed-key set by at most one element: a
\* press adds its own key value and only when key-pressed was voted consumed, a
\* release removes its own key value, any other event leaves the set as it was;
\* the accessors never change it.
C17_FrameEffect ==
    [][/\ (last'.done /\ last' # last) => HandleFrame'
       /\ (stack' # <<>>) => pressed_keys' = pressed_keys
       /\ AccessorStep => pressed_keys' = pressed_keys]_vars

\* A press voted consumed has added its key to a set holding another one.
C17_Witness ==
    /\ Handled /\ last.event.type = GDK_KEY_PRESS
    /\ last.pre # {}
    /\ last.event.keyval \notin last.pre
    /\ pressed_keys = last.pre \cup {last.event.keyval}
    /\ api.op = "none"

\* C20: press and release are matched on the key value alone. After a press of
\* v consumed by the key-pressed observers, the next key release of v is
\* consumed whatever its hardware code and state; the release of a key value
\* with no such press is not consumed and leaves the others in the set.
C20_MatchedOnKeyvalAlone ==
    HandledKeyRelease =>
        /\ last.wasVoted => last.ret
        /\ ~last.wasVoted => ~last.ret /\ pressed_keys = last.pre

\* The signals emitted after line 119.
KeySignals == {MODIFIERS, KEY_PRESSED, KEY_RELEASED}

\* The signals emitted before line 119.
EarlySignals == {FOCUS_IN, FOCUS_OUT, IM_UPDATE}

\* forward or get_group was called from an observer and has returned.
CalledFromObserver == api.op \in {"forward", "get_group"} /\ api.in_handle

\* C13: forward called while an event is in flight realizes the widget, then
\* dispatches the retained current event for capture, target and bubble in that
\* order; it returns TRUE at the first phase that reports consumption, running
\* no later phase, and FALSE only after all three reported not consumed.
C13_ForwardDispatchesRetainedEvent ==
    (api.op = "forward" /\ api.in_handle /\ api.precondition) =>
        /\ realized
        /\ api.phases = SubSeq(Phases, 1, Len(api.phases))
        /\ Len(api.phases) \in 1..Len(Phases)
        /\ Len(api.events) = Len(api.phases) /\ Len(api.results) = Len(api.phases)
        /\ \A i \in 1..Len(api.events) :
             api.events[i] # NULLEvent /\ api.events[i] = api.events[1]
        /\ \A i \in 1..(Len(api.results) - 1) : ~api.results[i]
        /\ api.ret = api.results[Len(api.results)]
        /\ ~api.ret => Len(api.phases) = Len(Phases)

\* C18 as claimed: while the observers of focus-in, focus-out or im-update are
\* notified the current event is not set, and forward and get_group called by
\* them fail their precondition; the current event is set only during
\* modifiers, key-pressed and key-released notifications.
C18_CurrentEventUnsetInEarlySignals ==
    /\ (stack # <<>> /\ stack[Len(stack)].sig \in EarlySignals) => current_event = NULLEvent
    /\ (CalledFromObserver /\ api.during \in EarlySignals) => ~api.precondition
    /\ current_event # NULLEvent => \E i \in 1..Len(stack) : stack[i].sig \in KeySignals

\* C18: while the observers of focus-in, focus-out or im-update are notified by
\* a handle call that was not itself made from an observer of this controller,
\* the current event is not set, and forward and get_group called by them fail
\* their precondition; the current event is set only while a modifiers,
\* key-pressed or key-released notification is in progress.
C18_CurrentEventUnsetInOutermostEarlySignals ==
    /\ (Len(stack) = 1 /\ stack[1].sig \in EarlySignals) => current_event = NULLEvent
    /\ (CalledFromObserver /\ ~api.nested /\ api.during \in EarlySignals) => ~api.precondition
    /\ current_event # NULLEvent => \E i \in 1..Len(stack) : stack[i].sig \in KeySignals

\* An im-update observer has called forward, which failed.
C18_Witness ==
    /\ Len(stack) = 1 /\ stack[1].sig = IM_UPDATE
    /\ api.op = "forward" /\ api.in_handle /\ ~api.nested
    /\ api.during = IM_UPDATE
    /\ ~api.precondition
    /\ current_event = NULLEvent

\* C19: throughout a modifiers, key-pressed or key-released callback the current
\* event is the event the enclosing handle call received, also after the
\* callback has forwarded it and the dispatch has re-entered handle on this
\* controller; forward and get_group called in such a callback succeed.
C19_CurrentEventKeptThroughCallback ==
    /\ (stack # <<>> /\ stack[Len(stack)].sig \in KeySignals)
         => current_event = stack[Len(stack)].event
    /\ (CalledFromObserver /\ api.during \in KeySignals) => api.precondition

=============================================================================
